---- MODULE Spec2Model ----
(***************************************************************************)
(* Model of src/app.py: the price-matrix pipeline of the dashboard.        *)
(*                                                                         *)
(*   load_and_process_data  (lines 61-93)  fetch, copy, corrupt, repair    *)
(*   script body            (lines 95-240) returns, describe, trend view,  *)
(*                                         moving average, ranking         *)
(*                                                                         *)
(* A DataFrame is a record [columns, nrows, values]: columns is the sequence *)
(* of column labels in column order, values[j] is the cell sequence of the *)
(* j-th column in row order.  pandas positions are 0-based; a position p   *)
(* is element p + 1 of the TLA+ sequence.  DataFrames live in a heap and   *)
(* the program's names hold references to them, so that copy() and an      *)
(* assignment of the same object are different things.                     *)
(*                                                                         *)
(* Display labels are written in ASCII:                                    *)
(*   "TSMC" = 2330.TW, "HonHai" = 2317.TW, "MediaTek" = 2454.TW,           *)
(*   "Delta" = 2308.TW  (lines 63-68).                                     *)
(* Prices are positive integers; NaN marks a missing price.  Derived       *)
(* ratios are exact fractions [num, den], and FNaN (0/0) is a missing one. *)
(***************************************************************************)
EXTENDS Integers, Sequences, FiniteSets, TLC

VARIABLES
    pc,             \* position in the script
    heap,           \* sequence of DataFrame objects; a reference is an index
    fetched,        \* the matrix as acquired and relabelled (lines 71-72)
    data,           \* reference held by `data`
    df_original,    \* reference held by `df_original`
    df_dirty,       \* reference held by `df_dirty`
    df_clean,       \* reference held by `df_clean` / `df_final`
    missing_orig,   \* missing counts per column position, original stage
    missing_dirty,  \* missing counts, dirty stage
    missing_clean,  \* missing counts, clean stage
    returns,        \* df_final.pct_change()
    selected_view,  \* the selectbox choice
    normalized,     \* per column: the normalized series plotted at line 155
    ma20,           \* the 20-observation rolling mean of the selected column
    total_return,   \* the ranking: sequence of [label, pct]
    executed,       \* downstream steps that have run
    outcome         \* "running", "load_failed" (st.error + st.stop), "uncaught"

vars == << pc, heap, fetched, data, df_original, df_dirty, df_clean,
           missing_orig, missing_dirty, missing_clean, returns, selected_view,
           normalized, ma20, total_return, executed, outcome >>

-----------------------------------------------------------------------------
(* Bounds of the model *)

MaxRows == 22        \* longest patterned matrix
MaxLen == 5          \* longest exhaustively enumerated column

-----------------------------------------------------------------------------
(* Program constants *)

WINDOW == 20         \* rolling(20)
TSMC_START == 0      \* iloc[0:5, ...]
TSMC_STOP == 5
HONHAI_START == 10   \* iloc[10:13, ...]
HONHAI_STOP == 13
MEDIATEK_ROW == 20   \* iloc[20, ...]
PERCENT == 100       \* (... - 1) * 100

NaN == -1            \* np.nan in a price cell (prices themselves are positive)
ALL_VIEW == "ALL"    \* the first selectbox option, line 146

\* The display labels of the tickers table, in the table's order.
TickerOrder == << "TSMC", "HonHai", "MediaTek", "Delta" >>

\* The same labels ordered by ticker code (2308, 2317, 2330, 2454), the order
\* in which the download lays out its columns.
SortedOrder == << "Delta", "HonHai", "TSMC", "MediaTek" >>

Labels == { TickerOrder[i] : i \in 1..Len(TickerOrder) }

-----------------------------------------------------------------------------
(* Sequence helpers *)

Range(s) == { s[i] : i \in 1..Len(s) }

Min(a, b) == IF a <= b THEN a ELSE b

Reverse(s) == [ i \in 1..Len(s) |-> s[Len(s) + 1 - i] ]

RECURSIVE SumSeq(_)
SumSeq(s) == IF s = << >> THEN 0 ELSE s[1] + SumSeq(Tail(s))

\* s restricted to the elements that lie in set S, order kept.
RECURSIVE Filter(_, _)
Filter(s, S) ==
    IF s = << >> THEN << >>
    ELSE IF s[1] \in S THEN << s[1] >> \o Filter(Tail(s), S)
         ELSE Filter(Tail(s), S)

-----------------------------------------------------------------------------
(* DataFrame primitives *)

NRows(df) == df.nrows

NCols(df) == Len(df.columns)

\* DataFrame.empty: any axis of length 0.
IsEmpty(df) == NCols(df) = 0 \/ NRows(df) = 0

\* columns.get_loc(label) raises KeyError when no column carries the label.
GetLocRaises(df, label) == label \notin Range(df.columns)

\* A lookup by the label's rank in the tickers table instead of by the columns.
GetLocByTableRank(df, label) ==
    (CHOOSE j \in 1..Len(TickerOrder) : TickerOrder[j] = label) - 1

\* columns.get_loc(label): the 0-based position of the column labelled label.
GetLoc(df, label) ==
    (CHOOSE j \in 1..NCols(df) : df.columns[j] = label) - 1

\* df[label]: the cells of the column labelled label (KeyError when absent).
GetItemRaises(df, label) == label \notin Range(df.columns)

GetItem(df, label) ==
    df.values[CHOOSE j \in 1..NCols(df) : df.columns[j] = label]

\* Series.isnull().sum() of one column.
CountMissing(col) == Cardinality({ i \in 1..Len(col) : col[i] = NaN })

\* DataFrame.isnull().sum(): one count per column position.
IsNullSum(df) == [ j \in 1..NCols(df) |-> CountMissing(df.values[j]) ]

\* DataFrame.copy(): a new object with the same cells.  Yields the new heap and
\* the reference of the copy.
CopyAlias(h, r) == [ heap |-> h, ref |-> r ]

DataFrameCopy(h, r) == [ heap |-> Append(h, h[r]), ref |-> Len(h) + 1 ]

-----------------------------------------------------------------------------
(* Corruption, lines 78-85 *)

\* df.iloc[start:stop, loc] = np.nan.  A slice is clipped to the rows present.
ILocSetSlice(df, start, stop, loc) ==
    [ df EXCEPT !.values[loc + 1] =
        [ t \in 1..NRows(df) |->
            IF start <= t - 1 /\ t - 1 < Min(stop, NRows(df)) THEN NaN ELSE @[t] ] ]

\* df.iloc[row, loc] = np.nan raises IndexError when row is out of bounds.
ILocSetRaises(df, row) == row >= NRows(df)

ILocSetScalar(df, row, loc) == [ df EXCEPT !.values[loc + 1][row + 1] = NaN ]

\* The body of the try block: three statements in order.  The first one that
\* raises ends the block (except: pass) and what the earlier ones wrote stays.
CorruptTry(df) ==
    IF GetLocRaises(df, "TSMC") THEN df
    ELSE LET d1 == ILocSetSlice(df, TSMC_START, TSMC_STOP, GetLoc(df, "TSMC"))
         IN  IF GetLocRaises(d1, "HonHai") THEN d1
             ELSE LET d2 == ILocSetSlice(d1, HONHAI_START, HONHAI_STOP,
                                         GetLoc(d1, "HonHai"))
                  IN  IF GetLocRaises(d2, "MediaTek") \/ ILocSetRaises(d2, MEDIATEK_ROW)
                      THEN d2
                      ELSE ILocSetScalar(d2, MEDIATEK_ROW, GetLoc(d2, "MediaTek"))

\* if not df_dirty.empty: try ... except: pass
CorruptFrame(df) == IF IsEmpty(df) THEN df ELSE CorruptTry(df)

-----------------------------------------------------------------------------
(* Repair, line 90 *)

\* Forward fill of one column: a scan in row order carrying the last value seen.
RECURSIVE FFillFrom(_, _)
FFillFrom(col, last) ==
    IF col = << >> THEN << >>
    ELSE IF col[1] = NaN THEN << last >> \o FFillFrom(Tail(col), last)
         ELSE << col[1] >> \o FFillFrom(Tail(col), col[1])

\* A forward fill that fills at most one cell after each value (limit=1).
FFillLimitOne(col) ==
    [ t \in 1..Len(col) |->
        IF col[t] = NaN /\ t > 1 THEN col[t - 1] ELSE col[t] ]

FFillColumn(col) == FFillFrom(col, NaN)

\* Backward fill of one column: the same scan in reverse row order.
BFillColumn(col) == Reverse(FFillFrom(Reverse(col), NaN))

FFill(df) == [ df EXCEPT !.values = [ j \in 1..NCols(df) |-> FFillColumn(@[j]) ] ]

BFill(df) == [ df EXCEPT !.values = [ j \in 1..NCols(df) |-> BFillColumn(@[j]) ] ]

\* Repairs that a slip at line 90 would give.
RepairFFillOnly(df) == FFill(df)

RepairBFillFirst(df) == FFill(BFill(df))

\* df_dirty.ffill().bfill()
Repair(df) == BFill(FFill(df))

-----------------------------------------------------------------------------
(* Statistics, lines 125-168 and 222-223 *)

FNaN == [ num |-> 0, den |-> 0 ]

\* Series.pct_change(): no value at position 0, then (p[t] - p[t-1]) / p[t-1].
PctChange(col) ==
    [ t \in 1..Len(col) |->
        IF t = 1 \/ col[t] = NaN \/ col[t - 1] = NaN THEN FNaN
        ELSE [ num |-> col[t] - col[t - 1], den |-> col[t - 1] ] ]

\* df_final[col] / df_final[col].iloc[0]
NormalizeColumn(col) ==
    [ t \in 1..Len(col) |->
        IF col[t] = NaN \/ col[1] = NaN THEN FNaN
        ELSE [ num |-> col[t], den |-> col[1] ] ]

\* Series.rolling(window).mean() with min_periods left at its default (window):
\* one pass in row order that adds the entering observation, removes the one
\* leaving the window, and emits sum / nobs when nobs reaches minp.
RECURSIVE RollFrom(_, _, _, _, _, _)
RollFrom(col, window, minp, i, sum, nobs) ==
    IF i > Len(col) THEN << >>
    ELSE LET gone == IF i > window THEN col[i - window] ELSE NaN
             s1   == IF col[i] = NaN THEN sum ELSE sum + col[i]
             n1   == IF col[i] = NaN THEN nobs ELSE nobs + 1
             s2   == IF gone = NaN THEN s1 ELSE s1 - gone
             n2   == IF gone = NaN THEN n1 ELSE n1 - 1
             out  == IF n2 >= minp /\ n2 > 0 THEN [ num |-> s2, den |-> n2 ] ELSE FNaN
         IN  << out >> \o RollFrom(col, window, minp, i + 1, s2, n2)

\* The same pass with min_periods=1, which emits partial-window means.
RollingMeanPartial(col, window) == RollFrom(col, window, 1, 1, 0, 0)

RollingMean(col, window) == RollFrom(col, window, window, 1, 0, 0)

\* (df_final.iloc[-1] / df_final.iloc[0] - 1) * 100 for one column.
TotalReturnPct(col) ==
    LET first == col[1]
        last  == col[Len(col)]
    IN  IF first = NaN \/ last = NaN THEN FNaN
        ELSE [ num |-> (last - first) * PERCENT, den |-> first ]

\* a < b on fractions with positive denominators.
FracLess(a, b) == a.num * b.den < b.num * a.den

\* argsort of a sequence of fractions, ascending, by insertion (the sort numpy
\* runs on arrays this short): equal keys keep their order.
RECURSIVE InsertEntry(_, _)
InsertEntry(sorted, e) ==
    IF sorted = << >> THEN << e >>
    ELSE IF FracLess(e.pct, sorted[1].pct) THEN << e >> \o sorted
         ELSE << sorted[1] >> \o InsertEntry(Tail(sorted), e)

RECURSIVE ArgSortAscending(_)
ArgSortAscending(entries) ==
    IF entries = << >> THEN << >>
    ELSE InsertEntry(ArgSortAscending(SubSeq(entries, 1, Len(entries) - 1)),
                     entries[Len(entries)])

RECURSIVE FilterEntries(_, _)
FilterEntries(entries, wantNaN) ==
    IF entries = << >> THEN << >>
    ELSE IF (entries[1].pct = FNaN) = wantNaN
         THEN << entries[1] >> \o FilterEntries(Tail(entries), wantNaN)
         ELSE FilterEntries(Tail(entries), wantNaN)

\* Series.sort_values(ascending=False): the non-NaN entries are reversed,
\* sorted ascending, reversed again; the NaN entries are placed last.
SortValuesDescending(entries) ==
    Reverse(ArgSortAscending(Reverse(FilterEntries(entries, FALSE))))
        \o FilterEntries(entries, TRUE)

\* Lines 222-223.
TotalReturnRank(df) ==
    SortValuesDescending(
        [ j \in 1..NCols(df) |->
            [ label |-> df.columns[j], pct |-> TotalReturnPct(df.values[j]) ] ])

-----------------------------------------------------------------------------
(* What the acquisition can return, lines 71-72 *)

\* Row counts on both sides of every index the corruption uses.
RowCounts == { 0, 1, TSMC_STOP, HONHAI_STOP - 1, MEDIATEK_ROW, MEDIATEK_ROW + 1, MaxRows }

Kinds == { "full", "gaps", "nan" }

BasePrice(label) ==
    CASE label = "TSMC" -> 10
      [] label = "HonHai" -> 20
      [] label = "MediaTek" -> 40
      [] OTHER -> 20

\* "full": a rising series with no gap.  "gaps": a falling series with gaps at
\* the start, inside and at the last row.  "nan": a column the source failed
\* to deliver.
PatternColumn(kind, label, n) ==
    [ t \in 1..n |->
        CASE kind = "full" -> BasePrice(label) + (t - 1)
          [] kind = "gaps" -> IF (t - 1) \in { 0, 1, 7, 8, n - 1 } THEN NaN
                              ELSE 60 - (t - 1)
          [] OTHER -> NaN ]

ColumnOrders ==
    { Filter(o, S) : o \in { TickerOrder, SortedOrder }, S \in SUBSET Labels }

PatternMatrices ==
    UNION { { [ columns |-> c, nrows |-> n,
                values |-> [ j \in 1..Len(c) |-> PatternColumn(k[j], c[j], n) ] ]
              : k \in [ 1..Len(c) -> Kinds ], n \in RowCounts }
            : c \in ColumnOrders }

\* Every column order of every subset of the labels, each column without gaps.
ColumnPermutations ==
    UNION { { c \in [ 1..k -> Labels ] : \A i, j \in 1..k : c[i] = c[j] => i = j }
            : k \in 0..Len(TickerOrder) }

PermutedMatrices ==
    { [ columns |-> c, nrows |-> n,
        values |-> [ j \in 1..Len(c) |-> PatternColumn("full", c[j], n) ] ]
      : c \in ColumnPermutations, n \in RowCounts }

\* Every column of up to MaxLen cells over two prices and NaN, under a label the
\* corruption does not touch.
SmallPrices == { 3, 4 }

ExhaustiveMatrices ==
    UNION { { [ columns |-> << "Delta" >>, nrows |-> n, values |-> << col >> ]
              : col \in [ 1..n -> SmallPrices \cup { NaN } ] }
            : n \in 0..MaxLen }

FetchResults == PatternMatrices \cup PermutedMatrices \cup ExhaustiveMatrices

EmptyFrame == [ columns |-> << >>, nrows |-> 0, values |-> << >> ]

-----------------------------------------------------------------------------
(* The script *)

Init ==
    /\ pc = "fetch"
    /\ heap = << >>
    /\ fetched = EmptyFrame
    /\ data = 0
    /\ df_original = 0
    /\ df_dirty = 0
    /\ df_clean = 0
    /\ missing_orig = << >>
    /\ missing_dirty = << >>
    /\ missing_clean = << >>
    /\ returns = << >>
    /\ selected_view = ALL_VIEW
    /\ normalized = << >>
    /\ ma20 = << >>
    /\ total_return = << >>
    /\ executed = { }
    /\ outcome = "running"

\* Lines 71-72: the download returns a matrix and its columns are relabelled.
Fetch ==
    /\ pc = "fetch"
    /\ \E m \in FetchResults :
        /\ fetched' = m
        /\ heap' = << m >>
    /\ data' = 1
    /\ pc' = "copy_original"
    /\ UNCHANGED << df_original, df_dirty, df_clean, missing_orig, missing_dirty,
                    missing_clean, returns, selected_view, normalized, ma20,
                    total_return, executed, outcome >>

\* Lines 71 and 95-99: the download raises; the script reports the failure and
\* stops.
FetchRaises ==
    /\ pc = "fetch"
    /\ outcome' = "load_failed"
    /\ pc' = "stopped"
    /\ UNCHANGED << heap, fetched, data, df_original, df_dirty, df_clean,
                    missing_orig, missing_dirty, missing_clean, returns,
                    selected_view, normalized, ma20, total_return, executed >>

\* Lines 74-75.
CopyOriginal ==
    /\ pc = "copy_original"
    /\ LET c == DataFrameCopy(heap, data)
       IN  /\ heap' = c.heap
           /\ df_original' = c.ref
           /\ missing_orig' = IsNullSum(c.heap[c.ref])
    /\ pc' = "corrupt"
    /\ UNCHANGED << fetched, data, df_dirty, df_clean, missing_dirty, missing_clean,
                    returns, selected_view, normalized, ma20, total_return,
                    executed, outcome >>

\* Lines 78-87: the copy, the guarded writes into it, and its missing counts.
Corrupt ==
    /\ pc = "corrupt"
    /\ LET c == DataFrameCopy(heap, data)
           h == [ c.heap EXCEPT ![c.ref] = CorruptFrame(@) ]
       IN  /\ heap' = h
           /\ df_dirty' = c.ref
           /\ missing_dirty' = IsNullSum(h[c.ref])
    /\ pc' = "repair"
    /\ UNCHANGED << fetched, data, df_original, df_clean, missing_orig,
                    missing_clean, returns, selected_view, normalized, ma20,
                    total_return, executed, outcome >>

\* Lines 90-96: the repaired matrix is a new object; the function returns.
RepairStep ==
    /\ pc = "repair"
    /\ heap' = Append(heap, Repair(heap[df_dirty]))
    /\ df_clean' = Len(heap) + 1
    /\ missing_clean' = IsNullSum(Repair(heap[df_dirty]))
    /\ pc' = "stats"
    /\ UNCHANGED << fetched, data, df_original, df_dirty, missing_orig,
                    missing_dirty, returns, selected_view, normalized, ma20,
                    total_return, executed, outcome >>

df_final == heap[df_clean]

\* Lines 125-129: daily returns and the annualized summary built from them.
\* (The summary's mean and standard deviation are not carried in the state.)
Stats ==
    /\ pc = "stats"
    /\ returns' = [ j \in 1..NCols(df_final) |-> PctChange(df_final.values[j]) ]
    /\ executed' = executed \cup { "daily_returns", "annualized_summary" }
    /\ pc' = "describe"
    /\ UNCHANGED << heap, fetched, data, df_original, df_dirty, df_clean,
                    missing_orig, missing_dirty, missing_clean, selected_view,
                    normalized, ma20, total_return, outcome >>

\* Line 134: describe() raises ValueError on a frame without columns.
Describe ==
    /\ pc = "describe"
    /\ IF NCols(df_final) = 0
       THEN /\ outcome' = "uncaught"
            /\ pc' = "crashed"
            /\ UNCHANGED executed
       ELSE /\ executed' = executed \cup { "descriptive_statistics" }
            /\ pc' = "trend"
            /\ UNCHANGED outcome
    /\ UNCHANGED << heap, fetched, data, df_original, df_dirty, df_clean,
                    missing_orig, missing_dirty, missing_clean, returns,
                    selected_view, normalized, ma20, total_return >>

\* Lines 150-157: every column divided by its first price; .iloc[0] raises
\* IndexError on a column without rows.
TrendAll ==
    /\ pc = "trend"
    /\ selected_view' = ALL_VIEW
    /\ IF NRows(df_final) = 0
       THEN /\ outcome' = "uncaught"
            /\ pc' = "crashed"
            /\ UNCHANGED << normalized, executed >>
       ELSE /\ normalized' =
                [ j \in 1..NCols(df_final) |-> NormalizeColumn(df_final.values[j]) ]
            /\ executed' = executed \cup { "normalization" }
            /\ pc' = "rank"
            /\ UNCHANGED outcome
    /\ UNCHANGED << heap, fetched, data, df_original, df_dirty, df_clean,
                    missing_orig, missing_dirty, missing_clean, returns, ma20,
                    total_return >>

\* Lines 165-168: one security is selected among the labels of the tickers
\* table; df_final[selected_view] raises KeyError when the matrix lacks it.
TrendOne ==
    /\ pc = "trend"
    /\ \E s \in Labels :
        /\ selected_view' = s
        /\ IF GetItemRaises(df_final, s)
           THEN /\ outcome' = "uncaught"
                /\ pc' = "crashed"
                /\ UNCHANGED << ma20, executed >>
           ELSE /\ ma20' = RollingMean(GetItem(df_final, s), WINDOW)
                /\ executed' = executed \cup { "moving_average" }
                /\ pc' = "rank"
                /\ UNCHANGED outcome
    /\ UNCHANGED << heap, fetched, data, df_original, df_dirty, df_clean,
                    missing_orig, missing_dirty, missing_clean, returns,
                    normalized, total_return >>

\* Lines 222-223: .iloc[-1] raises IndexError on a frame without rows.
Rank ==
    /\ pc = "rank"
    /\ IF NRows(df_final) = 0
       THEN /\ outcome' = "uncaught"
            /\ pc' = "crashed"
            /\ UNCHANGED << total_return, executed >>
       ELSE /\ total_return' = TotalReturnRank(df_final)
            /\ executed' = executed \cup { "total_return_ranking" }
            /\ pc' = "done"
            /\ UNCHANGED outcome
    /\ UNCHANGED << heap, fetched, data, df_original, df_dirty, df_clean,
                    missing_orig, missing_dirty, missing_clean, returns,
                    selected_view, normalized, ma20 >>

Next ==
    \/ Fetch
    \/ FetchRaises
    \/ CopyOriginal
    \/ Corrupt
    \/ RepairStep
    \/ Stats
    \/ Describe
    \/ TrendAll
    \/ TrendOne
    \/ Rank

Spec == Init /\ [][Next]_vars

-----------------------------------------------------------------------------
(* Properties *)

original == heap[df_original]
dirty == heap[df_dirty]
clean == heap[df_clean]

AfterCorrupt == pc \notin { "fetch", "copy_original", "corrupt", "stopped" }
AfterRepair == AfterCorrupt /\ pc # "repair"

Targets == { "TSMC", "HonHai", "MediaTek" }

AllMissing(col) == \A t \in 1..Len(col) : col[t] = NaN

MaxOf(S) == CHOOSE x \in S : \A y \in S : y <= x
MinOf(S) == CHOOSE x \in S : \A y \in S : x <= y

\* The cell (label, row position p) is one the corruption is written to hit.
TargetedByLabel(label, p) ==
    \/ label = "TSMC" /\ TSMC_START <= p /\ p < TSMC_STOP
    \/ label = "HonHai" /\ HONHAI_START <= p /\ p < HONHAI_STOP
    \/ label = "MediaTek" /\ p = MEDIATEK_ROW

\* The cell (column position c, row position p) under the positional reading:
\* first, second and third column in column order.
TargetedByPosition(c, p) ==
    \/ c = 0 /\ TSMC_START <= p /\ p < TSMC_STOP
    \/ c = 1 /\ HONHAI_START <= p /\ p < HONHAI_STOP
    \/ c = 2 /\ p = MEDIATEK_ROW

\* C1 as stated: with at least 21 dates and 3 securities, dirty is original with
\* NaN at rows 0-4 of the first column, 10-12 of the second and 20 of the third,
\* and nothing else changed.
C1_PositionalFidelity ==
    (AfterCorrupt /\ NRows(original) >= MEDIATEK_ROW + 1 /\ NCols(original) >= 3)
    => /\ dirty.columns = original.columns
       /\ \A j \in 1..NCols(original) : \A t \in 1..NRows(original) :
            dirty.values[j][t] =
                IF TargetedByPosition(j - 1, t - 1) THEN NaN
                ELSE original.values[j][t]

\* C1 amended: with at least 21 dates and the columns labelled TSMC, HonHai and
\* MediaTek present (wherever they stand in column order), dirty is original
\* with NaN at rows 0-4 of TSMC, 10-12 of HonHai and 20 of MediaTek, and
\* nothing else changed.
C1_LabelFidelity ==
    (AfterCorrupt /\ NRows(original) >= MEDIATEK_ROW + 1
        /\ Targets \subseteq Range(original.columns))
    => /\ dirty.columns = original.columns
       /\ \A j \in 1..NCols(original) : \A t \in 1..NRows(original) :
            dirty.values[j][t] =
                IF TargetedByLabel(original.columns[j], t - 1) THEN NaN
                ELSE original.values[j][t]

\* A 21-row matrix in ticker-code order without gaps: corruption has hit the
\* second, third and fourth columns and left the first one alone.
C1_Witness ==
    /\ AfterCorrupt
    /\ original.columns = SortedOrder
    /\ NRows(original) = MEDIATEK_ROW + 1
    /\ missing_orig = << 0, 0, 0, 0 >>
    /\ missing_dirty = << 0, 3, 5, 1 >>

C3_EmptyFetchHalts ==
    (pc # "fetch" /\ IsEmpty(fetched))
    => /\ executed = { }
       /\ pc \in { "done", "crashed", "stopped" } => outcome = "load_failed"

\* C4: every column of dirty that holds at least one price has no missing cell
\* in clean, and its clean-stage missing count is 0.
C4_Completeness ==
    AfterRepair =>
        \A j \in 1..NCols(dirty) :
            ~AllMissing(dirty.values[j]) =>
                /\ \A t \in 1..NRows(clean) : clean.values[j][t] # NaN
                /\ missing_clean[j] = 0

\* A column with a leading gap and a later gap, fully repaired.
C4_Witness ==
    /\ AfterRepair
    /\ \E j \in 1..NCols(dirty) :
        /\ NRows(dirty) >= 3
        /\ dirty.values[j][1] = NaN
        /\ dirty.values[j][NRows(dirty)] = NaN
        /\ ~AllMissing(dirty.values[j])
        /\ missing_dirty[j] >= 2
        /\ missing_clean[j] = 0

\* C5: column by column, a present cell keeps its value; a missing cell with an
\* earlier present cell takes the latest such cell's value; a missing cell with
\* none takes the value of the nearest later present cell.
C5_FillRule ==
    AfterRepair =>
        /\ clean.columns = dirty.columns
        /\ \A j \in 1..NCols(dirty) : \A t \in 1..NRows(dirty) :
            LET d == dirty.values[j]
                earlier == { u \in 1..(t - 1) : d[u] # NaN }
                later == { u \in (t + 1)..Len(d) : d[u] # NaN }
            IN  clean.values[j][t] =
                    IF d[t] # NaN THEN d[t]
                    ELSE IF earlier # { } THEN d[MaxOf(earlier)]
                    ELSE IF later # { } THEN d[MinOf(later)]
                    ELSE NaN

\* The column [NaN, NaN, 3, 4, NaN] repaired to [3, 3, 3, 4, 4].
C5_Witness ==
    /\ AfterRepair
    /\ dirty.values = << << NaN, NaN, 3, 4, NaN >> >>
    /\ clean.values = << << 3, 3, 3, 4, 4 >> >>

\* C6 as stated: a column that is entirely missing before repair is surfaced,
\* not carried as NaN into that security's normalized series, moving average
\* and total return.
C6_DegenerateSurfaced ==
    pc = "done" =>
        \A j \in 1..NCols(dirty) :
            AllMissing(dirty.values[j]) =>
                /\ \A k \in 1..Len(total_return) :
                        total_return[k].label = dirty.columns[j]
                            => total_return[k].pct # FNaN
                /\ selected_view = ALL_VIEW =>
                        \A t \in 1..Len(normalized[j]) : normalized[j][t] # FNaN
                /\ selected_view = dirty.columns[j] =>
                        \A t \in WINDOW..Len(ma20) : ma20[t] # FNaN

\* C7: forward fill then backward fill of the repaired matrix gives the
\* repaired matrix back.
C7_Idempotent == AfterRepair => BFill(FFill(clean)) = clean

\* Repair changed the matrix, filling a leading gap and a later one.
C7_Witness ==
    /\ AfterRepair
    /\ \E j \in 1..NCols(dirty) :
        /\ NRows(dirty) >= 4
        /\ dirty.values[j][1] = NaN
        /\ dirty.values[j][NRows(dirty) - 1] = NaN
        /\ dirty.values[j][NRows(dirty)] = NaN
        /\ clean.values[j][1] # NaN
        /\ clean.values[j][NRows(dirty)] # NaN

\* a >= b as a comparison of two numbers: false when either side is missing.
FracGE(a, b) == a # FNaN /\ b # FNaN /\ ~FracLess(a, b)

\* C8 as stated: the ranking holds every column of clean exactly once with its
\* pct, and each entry's pct is >= the next entry's.
C8_RankingDescending ==
    pc = "done" =>
        /\ Len(total_return) = NCols(clean)
        /\ \A j \in 1..NCols(clean) :
            \E k \in 1..Len(total_return) :
                /\ total_return[k].label = clean.columns[j]
                /\ total_return[k].pct = TotalReturnPct(clean.values[j])
        /\ \A k \in 1..(Len(total_return) - 1) :
            FracGE(total_return[k].pct, total_return[k + 1].pct)

\* The mean of the WINDOW cells of col that end at element t (missing when one
\* of them is, which repair leaves possible only in an all-missing column).
WindowMean(col, t) ==
    IF \E u \in (t - WINDOW + 1)..t : col[u] = NaN THEN FNaN
    ELSE [ num |-> SumSeq(SubSeq(col, t - WINDOW + 1, t)), den |-> WINDOW ]

\* C9: the moving average of the selected security has no value at row
\* positions 0..18 and at every position t >= 19 is the mean of the clean prices
\* at positions t-19..t.
C9_MovingAverage ==
    (pc \in { "rank", "done" } /\ selected_view \in Labels) =>
        LET col == GetItem(clean, selected_view)
        IN  /\ Len(ma20) = Len(col)
            /\ \A t \in 1..Len(col) :
                ma20[t] = IF t - 1 < WINDOW - 1 THEN FNaN ELSE WindowMean(col, t)

\* A selected column of more than 20 prices: no value at position 18, values
\* at positions 19 and 20, and they differ.
C9_Witness ==
    /\ pc = "done"
    /\ selected_view \in Labels
    /\ Len(ma20) > WINDOW
    /\ ma20[WINDOW - 1] = FNaN
    /\ ma20[WINDOW] # FNaN
    /\ ma20[WINDOW + 1] # FNaN
    /\ ma20[WINDOW + 1] # ma20[WINDOW]

\* C10: once df_original is bound, it equals the fetched matrix cell for cell
\* and the original-stage missing counts are those of the fetched matrix,
\* whatever corruption and repair did.
C10_OriginalUntouched ==
    pc \notin { "fetch", "copy_original", "stopped" } =>
        /\ original = fetched
        /\ missing_orig = IsNullSum(fetched)

\* Corruption was applied in part (rows 0-4 and 10-11 of a 12-row matrix) and
\* repair has run.
C10_Witness ==
    /\ AfterRepair
    /\ NRows(fetched) = HONHAI_STOP - 1
    /\ Targets \subseteq Range(fetched.columns)
    /\ dirty # fetched
    /\ clean # dirty

====
